---------------------------- MODULE Spec2Model ----------------------------
(***************************************************************************)
(* A model of samples/main.go: the reflective walker TagHandler (Handle,   *)
(* handleValue, handleStruct, handleArray, handleMap) and the two handler  *)
(* functions handleValidateTag and handleConfigTag.                        *)
(*                                                                         *)
(* Go strings whose characters matter (field values, environment variable  *)
(* contents, regular expressions, display strings) are sequences of        *)
(* one-character strings.  Names that are only compared as a whole (field  *)
(* names, type names, tag keys, environment variable names) are strings.   *)
(***************************************************************************)
EXTENDS Integers, Sequences, FiniteSets, TLC

(***************************************************************************)
(* Characters                                                              *)
(***************************************************************************)
Digits == <<"0", "1", "2", "3", "4", "5", "6", "7", "8", "9">>

DigitChars == {Digits[k] : k \in 1..10}

LetterChars ==
    {"a", "b", "c", "d", "e", "f", "g", "h", "i", "j", "k", "l", "m",
     "n", "o", "p", "q", "r", "s", "t", "u", "v", "w", "x", "y", "z",
     "A", "B", "C", "D", "E", "F", "G", "H", "I", "J", "K", "L", "M",
     "N", "O", "P", "Q", "R", "S", "T", "U", "V", "W", "X", "Y", "Z"}

\* the Perl class \w of regexp/syntax: [0-9A-Za-z_]
WordChars == DigitChars \cup LetterChars \cup {"_"}

\* the value of a decimal digit character
DigitVal(c) == (CHOOSE k \in 1..10 : Digits[k] = c) - 1

(***************************************************************************)
(* fmt's rendering of an int and strconv.Atoi.  Every string of the model  *)
(* is shorter than ten characters, so Atoi's "value out of range" failure  *)
(* (a number past 64 bits) has no input here and is left out.              *)
(***************************************************************************)
RECURSIVE FormatNat(_)
FormatNat(n) ==
    IF n < 10 THEN <<Digits[n + 1]>>
    ELSE FormatNat(n \div 10) \o <<Digits[(n % 10) + 1]>>

\* fmt's %v of an int: base-10 digits, a leading "-" when negative
FormatInt(n) == IF n < 0 THEN <<"-">> \o FormatNat(-n) ELSE FormatNat(n)

RECURSIVE ParseDigits(_, _, _)
\* the digits of s from position k on, accumulated into n
ParseDigits(s, k, n) ==
    IF k > Len(s) THEN [ok |-> TRUE, n |-> n, why |-> ""]
    ELSE IF s[k] \notin DigitChars
         THEN [ok |-> FALSE, n |-> 0, why |-> "invalid syntax"]
    ELSE ParseDigits(s, k + 1, n * 10 + DigitVal(s[k]))

\* strconv.Atoi: an optional sign, then at least one decimal digit
Atoi(s) ==
    LET signed == Len(s) > 0 /\ s[1] \in {"-", "+"}
        from   == IF signed THEN 2 ELSE 1
        r      == ParseDigits(s, from, 0)
        numErr(why) == [ok |-> FALSE, n |-> 0,
                        err |-> [fmt |-> "strconv.Atoi: parsing %q: %v",
                                 name |-> "", typ |-> "", str |-> s,
                                 tag |-> <<>>, cause |-> why]]
    IN IF from > Len(s) THEN numErr("invalid syntax")
       ELSE IF ~r.ok THEN numErr(r.why)
       ELSE [ok |-> TRUE,
             n |-> IF signed /\ s[1] = "-" THEN -r.n ELSE r.n,
             err |-> [fmt |-> "nil", name |-> "", typ |-> "", str |-> <<>>,
                      tag |-> <<>>, cause |-> ""]]

(***************************************************************************)
(* regexp: Compile parses a pattern into a syntax tree, MatchString runs   *)
(* it.  The syntax covered: literals, \d \w and escaped punctuation, ".",  *)
(* "^", "$", classes [...] with ranges and negation, groups, "|", and the  *)
(* repetitions * + ? {n} {n,} {n,m}.                                       *)
(***************************************************************************)
\* printable ASCII in code order (the backquote left out), for the ranges of
\* a character class
Ascii ==
    <<" ", "!", "\"", "#", "$", "%", "&", "'", "(", ")", "*", "+", ",", "-",
      ".", "/", "0", "1", "2", "3", "4", "5", "6", "7", "8", "9", ":", ";",
      "<", "=", ">", "?", "@", "A", "B", "C", "D", "E", "F", "G", "H", "I",
      "J", "K", "L", "M", "N", "O", "P", "Q", "R", "S", "T", "U", "V", "W",
      "X", "Y", "Z", "[", "\\", "]", "^", "_", "a", "b", "c", "d", "e",
      "f", "g", "h", "i", "j", "k", "l", "m", "n", "o", "p", "q", "r", "s",
      "t", "u", "v", "w", "x", "y", "z", "{", "|", "}", "~">>

AllChars == {Ascii[k] : k \in 1..Len(Ascii)}

Code(c) == CHOOSE k \in 1..Len(Ascii) : Ascii[k] = c

CharRange(lo, hi) == {Ascii[k] : k \in Code(lo)..Code(hi)}

PerlClass(c) == IF c = "d" THEN DigitChars ELSE WordChars

ParseOk(re, i) == [ok |-> TRUE, re |-> re, i |-> i, code |-> ""]

ParseFail(code, i) == [ok |-> FALSE, re |-> [op |-> "empty"], i |-> i, code |-> code]

\* one character of a class, escaped or not: [ok, c, i, code]
ClassChar(p, i) ==
    IF p[i] # "\\" THEN [ok |-> TRUE, c |-> p[i], i |-> i + 1, code |-> ""]
    ELSE IF i + 1 > Len(p)
         THEN [ok |-> FALSE, c |-> "", i |-> i,
               code |-> "trailing backslash at end of expression"]
    ELSE IF p[i + 1] \in WordChars
         THEN [ok |-> FALSE, c |-> "", i |-> i, code |-> "invalid escape sequence"]
    ELSE [ok |-> TRUE, c |-> p[i + 1], i |-> i + 2, code |-> ""]

RECURSIVE ClassItems(_, _, _, _, _)
\* the items of a class from position i on, up to its closing "]"
ClassItems(p, i, set, first, negate) ==
    IF i > Len(p) THEN ParseFail("missing closing ]", i)
    ELSE IF p[i] = "]" /\ ~first
         THEN ParseOk([op |-> "class",
                       set |-> IF negate THEN AllChars \ set ELSE set], i + 1)
    ELSE IF i < Len(p) /\ p[i] = "\\" /\ p[i + 1] \in {"d", "w"}
         THEN ClassItems(p, i + 2, set \cup PerlClass(p[i + 1]), FALSE, negate)
    ELSE LET lo == ClassChar(p, i)
         IN IF ~lo.ok THEN ParseFail(lo.code, i)
            ELSE IF lo.i + 1 <= Len(p) /\ p[lo.i] = "-" /\ p[lo.i + 1] # "]"
                 THEN LET hi == ClassChar(p, lo.i + 1)
                      IN IF ~hi.ok THEN ParseFail(hi.code, i)
                         ELSE IF Code(hi.c) < Code(lo.c)
                              THEN ParseFail("invalid character class range", i)
                         ELSE ClassItems(p, hi.i, set \cup CharRange(lo.c, hi.c),
                                         FALSE, negate)
            ELSE ClassItems(p, lo.i, set \cup {lo.c}, FALSE, negate)

ParseClass(p, i) ==
    IF i <= Len(p) /\ p[i] = "^" THEN ClassItems(p, i + 1, {}, TRUE, TRUE)
    ELSE ClassItems(p, i, {}, TRUE, FALSE)

RECURSIVE ParseNat(_, _, _)
\* the decimal number at position i: [n, i], n = -1 when there is no digit
ParseNat(p, i, n) ==
    IF i <= Len(p) /\ p[i] \in DigitChars
    THEN ParseNat(p, i + 1, (IF n < 0 THEN 0 ELSE n * 10) + DigitVal(p[i]))
    ELSE [n |-> n, i |-> i]

\* a repetition {n}, {n,} or {n,m} at position i (p[i] = "{"): [ok, min, max, i];
\* anything else after "{" is no repetition and "{" is a literal
ParseRepeat(p, i) ==
    LET lo == ParseNat(p, i + 1, -1)
        no == [ok |-> FALSE, min |-> 0, max |-> 0, i |-> i]
    IN IF lo.n < 0 \/ lo.i > Len(p) THEN no
       ELSE IF p[lo.i] = "}" THEN [ok |-> TRUE, min |-> lo.n, max |-> lo.n, i |-> lo.i + 1]
       ELSE IF p[lo.i] # "," THEN no
       ELSE LET hi == ParseNat(p, lo.i + 1, -1)
            IN IF hi.i > Len(p) \/ p[hi.i] # "}" THEN no
               ELSE [ok |-> TRUE, min |-> lo.n, max |-> hi.n, i |-> hi.i + 1]

RepOps == {"*", "+", "?"}

\* A group being parsed: the alternatives finished so far and the pieces of
\* the concatenation in progress.  The parser keeps a stack of them, the
\* whole pattern at the bottom and one more for every open parenthesis.
NewGroup == [alts |-> <<>>, cur |-> <<>>]

CloseGroup(g) ==
    LET cat == [op |-> "cat", subs |-> g.cur]
    IN IF g.alts = <<>> THEN cat ELSE [op |-> "alt", subs |-> Append(g.alts, cat)]

\* the stack with a piece added to the innermost group
PushPiece(st, re) == [st EXCEPT ![Len(st)].cur = Append(@, re)]

\* the stack with the innermost group's last piece repeated
RepeatLast(st, min, max) ==
    LET cur == st[Len(st)].cur
    IN [st EXCEPT ![Len(st)].cur[Len(cur)] =
            [op |-> "rep", sub |-> cur[Len(cur)], min |-> min, max |-> max]]

\* the operator at position i: [is, min, max, i] with i the position after
\* it; a "?" right after the operator (non-greedy) belongs to it
RepeatAt(p, i) ==
    LET braces == IF p[i] = "{" THEN ParseRepeat(p, i)
                  ELSE [ok |-> FALSE, min |-> 0, max |-> 0, i |-> i]
        end    == IF braces.ok THEN braces.i ELSE i + 1
    IN [is  |-> p[i] \in RepOps \/ braces.ok,
        min |-> IF braces.ok THEN braces.min ELSE IF p[i] = "+" THEN 1 ELSE 0,
        max |-> IF braces.ok THEN braces.max ELSE IF p[i] = "?" THEN 1 ELSE -1,
        i   |-> IF end <= Len(p) /\ p[end] = "?" THEN end + 1 ELSE end]

\* an escape outside a class, at position i (p[i] is the backslash)
ParseEscape(p, i) ==
    IF i + 1 > Len(p) THEN ParseFail("trailing backslash at end of expression", i)
    ELSE IF p[i + 1] \in {"d", "w"}
         THEN ParseOk([op |-> "class", set |-> PerlClass(p[i + 1])], i + 2)
    ELSE IF p[i + 1] \in WordChars THEN ParseFail("invalid escape sequence", i)
    ELSE ParseOk([op |-> "lit", c |-> p[i + 1]], i + 2)

\* one piece that is neither a group nor a repetition, at position i
ParsePiece(p, i) ==
    CASE p[i] = "[" -> ParseClass(p, i + 1)
      [] p[i] = "\\" -> ParseEscape(p, i)
      [] p[i] = "^" -> ParseOk([op |-> "bol"], i + 1)
      [] p[i] = "$" -> ParseOk([op |-> "eol"], i + 1)
      [] p[i] = "." -> ParseOk([op |-> "class", set |-> AllChars], i + 1)
      [] OTHER -> ParseOk([op |-> "lit", c |-> p[i]], i + 1)

RECURSIVE ParseLoop(_, _, _, _)
\* the pattern from position i on; lastRepeat: the piece before i is a
\* repetition, which takes no second operator
ParseLoop(p, i, st, lastRepeat) ==
    IF i > Len(p)
    THEN IF Len(st) > 1 THEN ParseFail("missing closing )", i)
         ELSE ParseOk(CloseGroup(st[1]), i)
    ELSE IF p[i] = "(" THEN ParseLoop(p, i + 1, Append(st, NewGroup), FALSE)
    ELSE IF p[i] = "|"
         THEN ParseLoop(p, i + 1,
                        [st EXCEPT ![Len(st)] =
                            [alts |-> Append(@.alts, [op |-> "cat", subs |-> @.cur]),
                             cur |-> <<>>]],
                        FALSE)
    ELSE IF p[i] = ")"
         THEN IF Len(st) = 1 THEN ParseFail("unexpected )", i)
              ELSE ParseLoop(p, i + 1,
                             PushPiece(SubSeq(st, 1, Len(st) - 1), CloseGroup(st[Len(st)])),
                             FALSE)
    ELSE IF RepeatAt(p, i).is
         THEN IF lastRepeat THEN ParseFail("invalid nested repetition operator", i)
              ELSE IF st[Len(st)].cur = <<>>
                   THEN ParseFail("missing argument to repetition operator", i)
              ELSE IF RepeatAt(p, i).max >= 0 /\ RepeatAt(p, i).max < RepeatAt(p, i).min
                   THEN ParseFail("invalid repeat count", i)
              ELSE ParseLoop(p, RepeatAt(p, i).i,
                             RepeatLast(st, RepeatAt(p, i).min, RepeatAt(p, i).max), TRUE)
    ELSE IF ~ParsePiece(p, i).ok THEN ParsePiece(p, i)
    ELSE ParseLoop(p, ParsePiece(p, i).i, PushPiece(st, ParsePiece(p, i).re), FALSE)

\* regexp.Compile: [ok, re, code]
Compile(p) == ParseLoop(p, 1, <<NewGroup>>, FALSE)

RECURSIVE Ends(_, _, _), CatEnds(_, _, _, _), RepEnds(_, _, _, _, _)

\* the positions where a match of re that starts after position i can end
Ends(re, s, i) ==
    CASE re.op = "lit" -> IF i < Len(s) /\ s[i + 1] = re.c THEN {i + 1} ELSE {}
      [] re.op = "class" -> IF i < Len(s) /\ s[i + 1] \in re.set THEN {i + 1} ELSE {}
      [] re.op = "bol" -> IF i = 0 THEN {i} ELSE {}
      [] re.op = "eol" -> IF i = Len(s) THEN {i} ELSE {}
      [] re.op = "cat" -> CatEnds(re.subs, 1, s, {i})
      [] re.op = "alt" -> UNION {Ends(re.subs[k], s, i) : k \in 1..Len(re.subs)}
      [] re.op = "rep" -> RepEnds(re, 0, s, {i}, {})
      [] OTHER -> {i}

CatEnds(subs, k, s, from) ==
    IF k > Len(subs) \/ from = {} THEN from
    ELSE CatEnds(subs, k + 1, s, UNION {Ends(subs[k], s, i) : i \in from})

\* from: the positions after exactly n repetitions; acc: those after min..n
RepEnds(re, n, s, from, acc) ==
    LET acc2 == IF n >= re.min THEN acc \cup from ELSE acc
        next == UNION {Ends(re.sub, s, i) : i \in from}
    IN IF from = {} \/ (re.max >= 0 /\ n >= re.max) THEN acc2
       ELSE IF n >= re.min /\ next \subseteq acc2 THEN acc2
       ELSE RepEnds(re, n + 1, s, next, acc2)

\* Regexp.MatchString: the pattern matches somewhere in s (anchors are the
\* pattern's own business)
MatchString(re, s) == \E i \in 0..Len(s) : Ends(re, s, i) # {}

(***************************************************************************)
(* Errors.  An error value is the format of its message and the values     *)
(* interpolated into it; a component the message does not hold is empty.   *)
(***************************************************************************)
Error(fmt, typ, name, str, tag, cause) ==
    [fmt |-> fmt, typ |-> typ, name |-> name, str |-> str, tag |-> tag,
     cause |-> cause]

NilErr == Error("nil", "", "", <<>>, <<>>, "")

(***************************************************************************)
(* Types.  The struct types of main.go (Person, Name, Config) and others   *)
(* that callers may pass to Handle: Team nests a pointer, a map, an array  *)
(* and a slice; Options carries conf tags on kinds setValue has no case    *)
(* for; Account has an unexported field; Coupon has a pattern that does    *)
(* not compile; Server has conf fields around an int field; a Cluster has  *)
(* a pointer to a Config ahead of a conf field; an Envelope has fields of  *)
(* interface type; a Ring can point back to itself.                        *)
(***************************************************************************)
\* ^(19|20)\d\d$
YearPattern == <<"^", "(", "1", "9", "|", "2", "0", ")", "\\", "d", "\\", "d", "$">>

\* ^[\w-\.]+@([\w-]+\.)+[\w-]{2,4}$
EmailPattern ==
    <<"^", "[", "\\", "w", "-", "\\", ".", "]", "+", "@",
      "(", "[", "\\", "w", "-", "]", "+", "\\", ".", ")", "+",
      "[", "\\", "w", "-", "]", "{", "2", ",", "4", "}", "$">>

\* ^\d+$
DigitsPattern == <<"^", "\\", "d", "+", "$">>

\* ^true$
TruePattern == <<"^", "t", "r", "u", "e", "$">>

\* (19|20 : the group is never closed
BrokenPattern == <<"(", "1", "9", "|", "2", "0">>

\* a reflect.StructField: PkgPath is empty exactly for an exported field
StructField(name, type, tag, pkgPath) ==
    [Name |-> name, Type |-> type, Tag |-> tag, PkgPath |-> pkgPath]

NoTag == [none |-> ""]

PersonFields ==
    <<StructField("BirthYear", "int",
                  [json |-> "birth_year", validate |-> YearPattern], ""),
      StructField("Name", "main.Name", [json |-> "name"], ""),
      StructField("Email", "string",
                  [json |-> "email", validate |-> EmailPattern], ""),
      StructField("Friends", "[]*main.Person", [json |-> "friends"], "")>>

NameFields ==
    <<StructField("FirstName", "string", [json |-> "first_name"], ""),
      StructField("LastName", "string", [json |-> "last_name"], "")>>

ConfigFields ==
    <<StructField("HttpMaxRetries", "int", [conf |-> "HTTP_MAX_RETRIES"], ""),
      StructField("ElasticsearchHost", "string", [conf |-> "ELASTICSEARCH_HOST"], "")>>

TeamFields ==
    <<StructField("Lead", "*main.Person", NoTag, ""),
      StructField("Members", "map[int]main.Name", NoTag, ""),
      StructField("Pair", "[2]main.Name", NoTag, ""),
      StructField("Labels", "[]string", NoTag, "")>>

OptionsFields ==
    <<StructField("Debug", "bool", [conf |-> "DEBUG"], ""),
      StructField("Limit", "int64", [conf |-> "LIMIT"], ""),
      StructField("Owner", "main.Name", [conf |-> "OWNER"], ""),
      StructField("Backup", "*main.Config", [conf |-> "BACKUP"], ""),
      StructField("Hosts", "[]string", [conf |-> "HOSTS"], "")>>

AccountFields ==
    <<StructField("Pin", "int", [validate |-> DigitsPattern], ""),
      StructField("id", "int", [validate |-> DigitsPattern, conf |-> "ACCOUNT_ID"], "main")>>

CouponFields ==
    <<StructField("Active", "bool", [validate |-> TruePattern], ""),
      StructField("Code", "string", [validate |-> BrokenPattern], "")>>

\* a type with conf-annotated fields before and after an int field
ServerFields ==
    <<StructField("Host", "string", [conf |-> "ELASTICSEARCH_HOST"], ""),
      StructField("Retries", "int", [conf |-> "HTTP_MAX_RETRIES"], ""),
      StructField("Fallback", "string", [conf |-> "ELASTICSEARCH_HOST"], "")>>

\* a type with a pointer to a Config ahead of a conf-annotated field of
\* its own
ClusterFields ==
    <<StructField("Primary", "*main.Config", NoTag, ""),
      StructField("Name", "string", [conf |-> "ELASTICSEARCH_HOST"], "")>>

\* a type with fields of interface type: one, a slice and a map of them
EnvelopeFields ==
    <<StructField("Label", "string", NoTag, ""),
      StructField("Body", "interface {}", [conf |-> "ELASTICSEARCH_HOST"], ""),
      StructField("Items", "[]interface {}", NoTag, ""),
      StructField("Extra", "map[int]interface {}", NoTag, "")>>

\* a type whose values can point back to themselves
RingFields ==
    <<StructField("Val", "int", NoTag, ""),
      StructField("Peers", "[]*main.Ring", NoTag, ""),
      StructField("Index", "map[int]*main.Ring", NoTag, ""),
      StructField("Next", "*main.Ring", NoTag, "")>>

\* reflect.Type.Field of a struct type: its fields in declaration order
TypeFields(t) ==
    CASE t = "main.Person" -> PersonFields
      [] t = "main.Name" -> NameFields
      [] t = "main.Config" -> ConfigFields
      [] t = "main.Team" -> TeamFields
      [] t = "main.Options" -> OptionsFields
      [] t = "main.Account" -> AccountFields
      [] t = "main.Coupon" -> CouponFields
      [] t = "main.Ring" -> RingFields
      [] t = "main.Server" -> ServerFields
      [] t = "main.Cluster" -> ClusterFields
      [] t = "main.Envelope" -> EnvelopeFields

\* reflect.StructTag.Lookup
Lookup(tag, key) ==
    IF key \in DOMAIN tag THEN [ok |-> TRUE, val |-> tag[key]]
    ELSE [ok |-> FALSE, val |-> <<>>]

(***************************************************************************)
(* Values.  The argument of Handle and everything reachable from it is one *)
(* tree; a place in it is the path from the root: a field number, an       *)
(* element number or a map key, and 0 for what a pointer or an interface   *)
(* holds.  A cycle is a pointer that leads back up its own path.           *)
(***************************************************************************)
IntV(n) == [kind |-> "int", n |-> n]

Int64V(n) == [kind |-> "int64", n |-> n]

StringV(s) == [kind |-> "string", s |-> s]

BoolV(b) == [kind |-> "bool", b |-> b]

StructV(t, fields) == [kind |-> "struct", type |-> t, fields |-> fields]

SliceV(elems) == [kind |-> "slice", elems |-> elems]

ArrayV(elems) == [kind |-> "array", elems |-> elems]

MapV(m) == [kind |-> "map", m |-> m]

PtrV(elem) == [kind |-> "ptr", isnil |-> FALSE, elem |-> elem]

NilPtr == [kind |-> "ptr", isnil |-> TRUE]

\* a pointer back to a value that holds it: the value up steps up the path
\* of the pointer
PtrUp(up) == [kind |-> "ptr", isnil |-> FALSE, up |-> up]

\* an interface value and the value it holds; a nil interface holds none
InterfaceV(elem) == [kind |-> "interface", isnil |-> FALSE, elem |-> elem]

NilInterface == [kind |-> "interface", isnil |-> TRUE]

\* what reflect.ValueOf(nil) and the Elem of a nil pointer describe
Invalid == [kind |-> "invalid"]

Child(t, k) ==
    CASE t.kind = "struct" -> t.fields[k]
      [] t.kind \in {"slice", "array"} -> t.elems[k]
      [] t.kind = "map" -> t.m[k]
      [] t.kind \in {"ptr", "interface"} -> t.elem

RECURSIVE At(_, _)
\* the value at a path
At(t, path) == IF path = <<>> THEN t ELSE At(Child(t, Head(path)), Tail(path))

RECURSIVE Put(_, _, _)
\* the tree with the value at a path replaced
Put(t, path, v) ==
    IF path = <<>> THEN v
    ELSE LET k == Head(path)
             c == Put(Child(t, k), Tail(path), v)
         IN CASE t.kind = "struct" -> [t EXCEPT !.fields[k] = c]
              [] t.kind \in {"slice", "array"} -> [t EXCEPT !.elems[k] = c]
              [] t.kind = "map" -> [t EXCEPT !.m[k] = c]
              [] t.kind \in {"ptr", "interface"} -> [t EXCEPT !.elem = c]

(***************************************************************************)
(* reflect.Value: the place it describes and its flags: addr (the value is *)
(* addressable) and ro (it was reached through an unexported field).       *)
(***************************************************************************)
Value(valid, path, addr, ro) ==
    [valid |-> valid, path |-> path, addr |-> addr, ro |-> ro]

ZeroValue == Value(FALSE, <<>>, FALSE, FALSE)

\* reflect.ValueOf(v): neither addressable nor read-only
ValueOf(m) == IF m.kind = "invalid" THEN ZeroValue ELSE Value(TRUE, <<>>, FALSE, FALSE)

Kind(m, val) == IF val.valid THEN At(m, val.path).kind ELSE "invalid"

\* the kinds each kind-specific method accepts; any other kind panics
MethodKinds(method) ==
    CASE method \in {"NumField", "Field"} -> {"struct"}
      [] method = "Len" -> {"array", "slice", "map", "string", "chan"}
      [] method = "Index" -> {"array", "slice", "string"}
      [] method \in {"MapKeys", "MapIndex"} -> {"map"}
      [] method = "Elem" -> {"ptr", "interface"}

Applies(method, m, val) == Kind(m, val) \in MethodKinds(method)

Type(m, val) == At(m, val.path).type

NumField(m, val) == Len(At(m, val.path).fields)

\* Value.Field(i): addressable as the struct is, read-only once unexported
Field(m, val, i) ==
    Value(TRUE, Append(val.path, i + 1), val.addr,
          val.ro \/ TypeFields(Type(m, val))[i + 1].PkgPath # "")

ValueLen(m, val) == Len(At(m, val.path).elems)

\* the elements counted from the end: val.Index(val.Len() - 1 - i)
Index_FromEnd(m, val, i) ==
    Value(TRUE, Append(val.path, ValueLen(m, val) - i),
          Kind(m, val) = "slice" \/ val.addr, val.ro)

\* Value.Index(i): an element of a slice is addressable, one of an array is
\* as the array is
Index(m, val, i) ==
    Value(TRUE, Append(val.path, i + 1),
          Kind(m, val) = "slice" \/ val.addr, val.ro)

MapKeys(m, val) == DOMAIN At(m, val.path).m

\* Value.MapIndex(key): a copy of the map's value, never addressable
MapIndex(m, val, key) == Value(TRUE, Append(val.path, key), FALSE, val.ro)

\* a pointer back to an ancestor taken for visited and skipped like nil
Elem_Visited(m, val) ==
    IF At(m, val.path).isnil \/ "up" \in DOMAIN At(m, val.path) THEN ZeroValue
    ELSE Value(TRUE, Append(val.path, 0), TRUE, val.ro)

\* Value.Elem() of a pointer: the zero Value for nil, else the addressable
\* value pointed to; of an interface: the value it holds, not addressable
Elem(m, val) ==
    LET p == At(m, val.path)
    IN IF p.isnil THEN ZeroValue
       ELSE IF "up" \in DOMAIN p
            THEN Value(TRUE, SubSeq(val.path, 1, Len(val.path) - p.up), TRUE, val.ro)
       ELSE Value(TRUE, Append(val.path, 0), p.kind = "ptr", val.ro)

\* Value.CanSet
CanSet(val) == val.addr /\ ~val.ro

(***************************************************************************)
(* The handler functions.  A call ends in one outcome: it returns err      *)
(* (NilErr for nil) and leaves the value graph as mem, or it panics.       *)
(***************************************************************************)
Return(err, m) == [panic |-> FALSE, err |-> err, mem |-> m]

Panic(m) == [panic |-> TRUE, err |-> NilErr, mem |-> m]

\* value.String() where the code formats value.Interface(): for a value
\* that is no string it yields "<T Value>", T the type
valueToString_String(m, value) ==
    LET v == At(m, value.path)
    IN [panic |-> FALSE,
        str |-> IF v.kind = "string" THEN v.s
                ELSE <<"<", v.kind, " ", "V", "a", "l", "u", "e", ">">>]

\* fmt.Sprintf("%v", value.Interface()); Interface panics on a value reached
\* through an unexported field.  The tagged fields of the types above are
\* ints, strings and bools.
valueToString(m, value) ==
    LET v == At(m, value.path)
    IN IF value.ro THEN [panic |-> TRUE, str |-> <<>>]
       ELSE [panic |-> FALSE,
             str |-> CASE v.kind \in {"int", "int64"} -> FormatInt(v.n)
                       [] v.kind = "string" -> v.s
                       [] v.kind = "bool" ->
                            IF v.b THEN <<"t", "r", "u", "e">>
                            ELSE <<"f", "a", "l", "s", "e">>]

\* the validate patterns of the types above
Patterns == {YearPattern, EmailPattern, DigitsPattern, TruePattern, BrokenPattern}

\* what regexp.Compile returns for each of them: the same at every call
Compiled == [p \in Patterns |-> Compile(p)]

handleValidateTag(m, value, field) ==
    LET tag   == Lookup(field.Tag, "validate")
        match == IF tag.val \in Patterns THEN Compiled[tag.val] ELSE Compile(tag.val)
        str   == valueToString(m, value)
    IN IF ~tag.ok THEN Return(NilErr, m)
       ELSE IF ~match.ok
            THEN Return(Error("validation regexp syntax error: %v",
                              "", "", <<>>, <<>>, match.code), m)
       ELSE IF str.panic THEN Panic(m)
       ELSE IF ~MatchString(match.re, str.str)
            THEN Return(Error("invalid field (%v::%v) %v != %v",
                              field.Type, field.Name, str.str, tag.val, ""), m)
       ELSE Return(NilErr, m)

\* the parsed content set on a copy of the field, not on the field
setValue_OnCopy(m, value, envvar) ==
    LET kind == Kind(m, value)
        n    == Atoi(envvar)
    IN IF kind = "int" /\ ~n.ok THEN Return(n.err, m) ELSE Return(NilErr, m)

\* case reflect.Int, reflect.Int64: an int64 field parsed and set as well
setValue_Int64(m, value, envvar) ==
    LET kind == Kind(m, value)
        n    == Atoi(envvar)
    IN CASE kind = "string" ->
              IF CanSet(value) THEN Return(NilErr, Put(m, value.path, StringV(envvar)))
              ELSE Panic(m)
         [] kind \in {"int", "int64"} ->
              IF ~n.ok THEN Return(n.err, m)
              ELSE IF CanSet(value)
                   THEN Return(NilErr, Put(m, value.path, [kind |-> kind, n |-> n.n]))
              ELSE Panic(m)
         [] OTHER -> Return(NilErr, m)

\* case reflect.Slice: the content appended to a slice of strings
setValue_Append(m, value, envvar) ==
    LET kind == Kind(m, value)
        n    == Atoi(envvar)
    IN CASE kind = "string" ->
              IF CanSet(value) THEN Return(NilErr, Put(m, value.path, StringV(envvar)))
              ELSE Panic(m)
         [] kind = "int" ->
              IF ~n.ok THEN Return(n.err, m)
              ELSE IF CanSet(value)
                   THEN Return(NilErr, Put(m, value.path, IntV(n.n)))
              ELSE Panic(m)
         [] kind = "slice" ->
              Return(NilErr, Put(m, value.path,
                                 SliceV(Append(At(m, value.path).elems, StringV(envvar)))))
         [] OTHER -> Return(NilErr, m)

\* value.SetInt(int64(n)) ahead of the test of err: on content that does not
\* parse the field is set to 0 before the error is returned
setValue_ZeroOnError(m, value, envvar) ==
    LET kind == Kind(m, value)
        n    == Atoi(envvar)
    IN CASE kind = "string" ->
              IF CanSet(value) THEN Return(NilErr, Put(m, value.path, StringV(envvar)))
              ELSE Panic(m)
         [] kind = "int" ->
              IF ~CanSet(value) THEN Panic(m)
              ELSE IF ~n.ok THEN Return(n.err, Put(m, value.path, IntV(0)))
              ELSE Return(NilErr, Put(m, value.path, IntV(n.n)))
         [] OTHER -> Return(NilErr, m)

\* if value.CanSet() around the assignments: a field that cannot be set is
\* skipped and nil returned
setValue_IfCanSet(m, value, envvar) ==
    LET kind == Kind(m, value)
        n    == Atoi(envvar)
    IN CASE kind = "string" ->
              IF CanSet(value) THEN Return(NilErr, Put(m, value.path, StringV(envvar)))
              ELSE Return(NilErr, m)
         [] kind = "int" ->
              IF ~n.ok THEN Return(n.err, m)
              ELSE IF CanSet(value)
                   THEN Return(NilErr, Put(m, value.path, IntV(n.n)))
              ELSE Return(NilErr, m)
         [] OTHER -> Return(NilErr, m)

\* Value.SetString / Value.SetInt panic on a value that cannot be set
setValue(m, value, envvar) ==
    LET kind == Kind(m, value)
        n    == Atoi(envvar)
    IN CASE kind = "string" ->
              IF CanSet(value) THEN Return(NilErr, Put(m, value.path, StringV(envvar)))
              ELSE Panic(m)
         [] kind = "int" ->
              IF ~n.ok THEN Return(n.err, m)
              ELSE IF CanSet(value)
                   THEN Return(NilErr, Put(m, value.path, IntV(n.n)))
              ELSE Panic(m)
         [] OTHER -> Return(NilErr, m)

\* os.Getenv where the code calls os.LookupEnv: an unset variable reads as
\* a set, empty one
LookupEnv_Getenv(e, name) ==
    [ok |-> TRUE, val |-> IF name \in DOMAIN e THEN e[name] ELSE <<>>]

\* os.LookupEnv, on an environment e: a function from the set variables
LookupEnv(e, name) ==
    IF name \in DOMAIN e THEN [ok |-> TRUE, val |-> e[name]]
    ELSE [ok |-> FALSE, val |-> <<>>]

handleConfigTag(m, e, value, field) ==
    LET tag    == Lookup(field.Tag, "conf")
        envvar == LookupEnv(e, tag.val)
    IN IF ~tag.ok THEN Return(NilErr, m)
       ELSE IF ~envvar.ok THEN Return(NilErr, m)
       ELSE setValue(m, value, envvar.val)

RECURSIVE PathString(_)
PathString(path) ==
    IF path = <<>> THEN <<>>
    ELSE <<"/">> \o FormatInt(Head(path)) \o PathString(Tail(path))

\* TagHandler.HandlerFn is any function of this signature: besides the two
\* handlers of main.go, a handler that may fail or succeed on every call
\* and names the place it failed on
HandlerFn(h, m, e, value, field) ==
    CASE h = "handleValidateTag" -> {handleValidateTag(m, value, field)}
      [] h = "handleConfigTag" -> {handleConfigTag(m, e, value, field)}
      [] h = "anyHandler" ->
           {Return(NilErr, m),
            Return(Error("failed on %v %v at %v", field.Type, field.Name,
                         PathString(value.path), <<>>, ""), m)}

(***************************************************************************)
(* Inputs: the values handed to Handle, the handler function and the       *)
(* process environment.                                                    *)
(***************************************************************************)
\* the longest Friends slice of a generated Person
MaxFriends == 2

SeqsUpTo(S, n) == UNION {[1..k -> S] : k \in 0..n}

GoodEmail == <<"a", "@", "b", ".", "c", "o">>

BadEmail == <<"a", "@", "b">>

NameV == StructV("main.Name", <<StringV(<<"I", "a", "f">>), StringV(<<"N">>)>>)

PersonV(year, email, friends) ==
    StructV("main.Person", <<IntV(year), NameV, StringV(email), SliceV(friends)>>)

LeafPersons == {PersonV(y, e, <<>>) : y \in {1990, 195}, e \in {GoodEmail, BadEmail}}

Friends == {NilPtr} \cup {PtrV(p) : p \in LeafPersons}

Persons ==
    {PersonV(y, e, fs) : y \in {1990, 195}, e \in {GoodEmail, BadEmail},
                         fs \in SeqsUpTo(Friends, MaxFriends)}

ConfigV(retries, host) == StructV("main.Config", <<IntV(retries), StringV(host)>>)

ZeroConfig == ConfigV(0, <<>>)

SetConfig == ConfigV(3, <<"h">>)

\* a Config behind a pointer (as main passes it), by value, and inside
\* slices, arrays and maps
ConfigRoots ==
    UNION {{PtrV(c), c, SliceV(<<c>>), ArrayV(<<c>>), PtrV(ArrayV(<<c>>)),
            MapV(1 :> c), MapV(1 :> PtrV(c))} : c \in {ZeroConfig, SetConfig}}
    \cup {SliceV(<<PtrV(ZeroConfig), NilPtr, PtrV(SetConfig)>>),
          PtrV(PtrV(ZeroConfig))}

OptionsV(backup) ==
    StructV("main.Options",
            <<BoolV(FALSE), Int64V(0), NameV, backup, SliceV(<<StringV(<<"h">>)>>)>>)

OptionsRoots ==
    {PtrV(OptionsV(NilPtr)), PtrV(OptionsV(PtrV(ZeroConfig))), OptionsV(NilPtr)}

AccountV(pin, id) == StructV("main.Account", <<IntV(pin), IntV(id)>>)

CouponV(active, code) == StructV("main.Coupon", <<BoolV(active), StringV(code)>>)

AccountRoots ==
    UNION {{a, PtrV(a)} : a \in {AccountV(12, 7), AccountV(-3, 7)}}
    \cup {CouponV(b, <<"1", "9">>) : b \in BOOLEAN}
    \cup {MapV((1 :> AccountV(-3, 7)) @@ (2 :> AccountV(12, 7)))}

TeamV(lead, members, labels) ==
    StructV("main.Team", <<lead, MapV(members), ArrayV(<<NameV, NameV>>), SliceV(labels)>>)

TeamRoots ==
    {TeamV(l, m, ls) :
        l \in {NilPtr, PtrV(PersonV(1990, GoodEmail, <<>>)),
               PtrV(PersonV(1990, BadEmail, <<>>))},
        m \in {<<>>, (1 :> NameV) @@ (2 :> NameV)},
        ls \in {<<>>, <<StringV(<<"x">>)>>}}

\* values that are no struct at the top: nil, scalars, and sequences, maps
\* and pointers of scalars and of structs
OtherRoots ==
    {Invalid, NilPtr, IntV(7), StringV(<<"x">>), BoolV(TRUE),
     SliceV(<<>>), SliceV(<<IntV(1), IntV(2)>>), ArrayV(<<NameV, NameV>>),
     MapV(<<>>), MapV(1 :> StringV(<<"x">>)), PtrV(PtrV(NameV)), PtrV(IntV(7)),
     MapV((1 :> PersonV(1990, GoodEmail, <<>>)) @@ (2 :> PersonV(1990, BadEmail, <<>>))
          @@ (3 :> PersonV(195, GoodEmail, <<>>)))}

ServerV(host, retries, fallback) ==
    StructV("main.Server", <<StringV(host), IntV(retries), StringV(fallback)>>)

ServerRoots ==
    {PtrV(ServerV(<<"h">>, 3, <<"f">>)),
     SliceV(<<PtrV(ServerV(<<"h">>, 3, <<"f">>)), PtrV(ServerV(<<"g">>, 4, <<"e">>))>>)}

ClusterV(primary, name) == StructV("main.Cluster", <<primary, StringV(name)>>)

\* a Cluster by value and behind a pointer; its Config is behind a pointer
ClusterRoots ==
    {ClusterV(PtrV(ZeroConfig), <<"n">>), PtrV(ClusterV(PtrV(ZeroConfig), <<"n">>))}

EnvelopeV(body, items, extra) ==
    StructV("main.Envelope", <<StringV(<<"l">>), body, SliceV(items), MapV(extra)>>)

\* what an interface may hold: a Person whose Email is invalid, a Config by
\* pointer and by value, a Name, a scalar, nothing
Bodies ==
    {InterfaceV(PersonV(1990, BadEmail, <<>>)), InterfaceV(PtrV(ZeroConfig)),
     InterfaceV(IntV(7)), NilInterface}

\* interfaces in a field, in a slice and in a map, and a slice and a map of
\* interfaces handed to Handle as they are
EnvelopeRoots ==
    {PtrV(EnvelopeV(b, is, ex)) :
        b \in Bodies,
        is \in {<<>>, <<InterfaceV(NameV), InterfaceV(StringV(<<"x">>))>>},
        ex \in {<<>>, 1 :> InterfaceV(ZeroConfig)}}
    \cup {SliceV(<<InterfaceV(PersonV(1990, BadEmail, <<>>))>>),
          MapV(1 :> InterfaceV(PersonV(1990, BadEmail, <<>>)))}

Handlers == {"handleValidateTag", "handleConfigTag", "anyHandler"}

NoEnv == <<>>

EnvContents == {<<"5">>, <<"a", "b", "c">>, <<"-", "1", "2">>, <<"+", "7">>, <<>>}

ConfigVars == {"HTTP_MAX_RETRIES", "ELASTICSEARCH_HOST"}

ConfigEnvs == UNION {[D -> EnvContents] : D \in SUBSET ConfigVars}

\* both variables of Config set
FullEnv == [v \in ConfigVars |-> IF v = "HTTP_MAX_RETRIES" THEN <<"5">> ELSE <<"a", "b", "c">>]

OptionsVars == {"DEBUG", "LIMIT", "OWNER", "BACKUP", "HOSTS"}

OptionsEnvs ==
    {[d \in D |-> c] : D \in SUBSET OptionsVars, c \in {<<"5">>, <<"a", "b", "c">>}}

AccountEnvs == {NoEnv, "ACCOUNT_ID" :> <<"5">>}

Input(v, h, e) == [v |-> v, th |-> h, env |-> e]

\* every root with every handler; the environment varies where the handler
\* reads it and the root's types name variables
Inputs ==
    {Input(v, h, NoEnv) :
        v \in Persons \cup TeamRoots \cup OtherRoots \cup ConfigRoots
              \cup OptionsRoots \cup AccountRoots \cup EnvelopeRoots,
        h \in Handlers}
    \cup {Input(v, "handleConfigTag", FullEnv) : v \in EnvelopeRoots}
    \cup {Input(v, "handleConfigTag", e) :
            v \in ConfigRoots \cup OtherRoots \cup ServerRoots \cup ClusterRoots,
            e \in ConfigEnvs}
    \cup {Input(v, "handleConfigTag", e) : v \in OptionsRoots, e \in OptionsEnvs}
    \cup {Input(v, "handleConfigTag", e) : v \in AccountRoots, e \in AccountEnvs}

(***************************************************************************)
(* The walk as a state machine: one frame per active call of handleValue,  *)
(* handleStruct, handleArray or handleMap.                                 *)
(***************************************************************************)
VARIABLES
    mem,     \* the argument of Handle and everything reachable from it
    orig,    \* mem as it was when Handle was called
    past,    \* the walks Handle has finished on this value before, in order
    env,     \* the process environment
    th,      \* TagHandler.HandlerFn
    stack,   \* the frames of the calls in progress, the innermost last
    ret,     \* the value a call has just returned to its caller
    state,   \* "ready", "running", "returned" or "panicked"
    result,  \* what Handle returned
    calls    \* the invocations of HandlerFn so far, in order

vars == <<mem, orig, past, env, th, stack, ret, state, result, calls>>

\* the number of frames the stack holds: more than any walk of a value
\* without a cycle takes here
MaxDepth == 12

\* there is stack left for a call
StackLeft == Len(stack) < MaxDepth

Frame(fn, val, keys) == [fn |-> fn, val |-> val, i |-> 0, keys |-> keys, pc |-> "enter"]

NoRet == [set |-> FALSE, err |-> NilErr]

\* return nil where the code returns err: the failure is swallowed
Returned_Nil(err) == [set |-> TRUE, err |-> NilErr]

\* fmt.Errorf("walk: %v", err) where the code returns err as it is
Returned_Wrapped(err) ==
    [set |-> TRUE,
     err |-> IF err = NilErr THEN NilErr ELSE [err EXCEPT !.fmt = "walk: %v", !.cause = err.fmt]]

\* return err
Returned(err) == [set |-> TRUE, err |-> err]

Top == stack[Len(stack)]

Pop == SubSeq(stack, 1, Len(stack) - 1)

WithTop(f) == [stack EXCEPT ![Len(stack)] = f]

\* the caller waits for the call it makes
CallFrom(f) == Append(WithTop([Top EXCEPT !.pc = "wait"]), f)

At_(fn, pc) ==
    /\ state = "running"
    /\ stack # <<>>
    /\ Top.fn = fn
    /\ Top.pc = pc

\* err != nil
Failed(err) == err # NilErr

\* the orders in which a range over MapKeys may present the keys
KeyOrders(keys) ==
    {o \in [1..Cardinality(keys) -> keys] : \A a, b \in DOMAIN o : a # b => o[a] # o[b]}

\* the switch without reflect.Array: only slices are walked
Dispatch_NoArray(kind) ==
    CASE kind = "struct" -> "handleStruct"
      [] kind = "slice" -> "handleArray"
      [] kind = "map" -> "handleMap"
      [] kind = "ptr" -> "handleValue"
      [] OTHER -> "return"

\* default: return th.handleStruct(val), whatever is no sequence, map or
\* pointer taken for a struct
Dispatch_DefaultStruct(kind) ==
    CASE kind \in {"array", "slice"} -> "handleArray"
      [] kind = "map" -> "handleMap"
      [] kind = "ptr" -> "handleValue"
      [] OTHER -> "handleStruct"

\* the switch without reflect.Ptr: a pointer is taken for a scalar
Dispatch_NoPtr(kind) ==
    CASE kind = "struct" -> "handleStruct"
      [] kind \in {"array", "slice"} -> "handleArray"
      [] kind = "map" -> "handleMap"
      [] OTHER -> "return"

\* case reflect.Ptr, reflect.Interface: what an interface holds is walked
\* as what a pointer points to is
Dispatch_Interface(kind) ==
    CASE kind = "struct" -> "handleStruct"
      [] kind \in {"array", "slice"} -> "handleArray"
      [] kind = "map" -> "handleMap"
      [] kind \in {"ptr", "interface"} -> "handleValue"
      [] OTHER -> "return"

\* the switch of handleValue: the function a kind is handed to
Dispatch(kind) ==
    CASE kind = "struct" -> "handleStruct"
      [] kind \in {"array", "slice"} -> "handleArray"
      [] kind = "map" -> "handleMap"
      [] kind = "ptr" -> "handleValue"
      [] OTHER -> "return"

Init ==
    /\ \E input \in Inputs :
          /\ mem = input.v
          /\ orig = input.v
          /\ env = input.env
          /\ th = input.th
    /\ past = <<>>
    /\ stack = <<>>
    /\ ret = NoRet
    /\ state = "ready"
    /\ result = NilErr
    /\ calls = <<>>

\* Handle(v): return th.handleValue(reflect.ValueOf(v))
Handle ==
    /\ state = "ready"
    /\ state' = "running"
    /\ stack' = <<Frame("handleValue", ValueOf(mem), <<>>)>>
    /\ UNCHANGED <<mem, orig, past, env, th, ret, result, calls>>

\* a kind-specific method on a value of another kind panics
Panics == /\ state' = "panicked"
          /\ UNCHANGED <<mem, orig, past, env, th, stack, ret, result, calls>>

\* handleValue, case reflect.Struct
HandleValueStruct ==
    /\ At_("handleValue", "enter")
    /\ Dispatch(Kind(mem, Top.val)) = "handleStruct"
    /\ StackLeft
    /\ stack' = CallFrom(Frame("handleStruct", Top.val, <<>>))
    /\ UNCHANGED <<mem, orig, past, env, th, ret, state, result, calls>>

\* handleValue, case reflect.Array, reflect.Slice
HandleValueArray ==
    /\ At_("handleValue", "enter")
    /\ Dispatch(Kind(mem, Top.val)) = "handleArray"
    /\ StackLeft
    /\ stack' = CallFrom(Frame("handleArray", Top.val, <<>>))
    /\ UNCHANGED <<mem, orig, past, env, th, ret, state, result, calls>>

\* handleValue, case reflect.Map; handleMap ranges over val.MapKeys(), which
\* come in any order
HandleValueMap ==
    /\ At_("handleValue", "enter")
    /\ Dispatch(Kind(mem, Top.val)) = "handleMap"
    /\ StackLeft
    /\ IF Applies("MapKeys", mem, Top.val)
       THEN /\ \E keys \in KeyOrders(MapKeys(mem, Top.val)) :
                  stack' = CallFrom(Frame("handleMap", Top.val, keys))
            /\ UNCHANGED <<mem, orig, past, env, th, ret, state, result, calls>>
       ELSE Panics

\* a nil pointer reported as a failure where the code walks val.Elem()
HandleValuePtr_NilFails ==
    /\ At_("handleValue", "enter")
    /\ Dispatch(Kind(mem, Top.val)) = "handleValue"
    /\ StackLeft
    /\ IF At(mem, Top.val.path).isnil
       THEN /\ stack' = Pop
            /\ ret' = Returned(Error("nil pointer", "", "", <<>>, <<>>, ""))
       ELSE /\ stack' = CallFrom(Frame("handleValue", Elem(mem, Top.val), <<>>))
            /\ UNCHANGED ret
    /\ UNCHANGED <<mem, orig, past, env, th, state, result, calls>>

\* handleValue, case reflect.Ptr: return th.handleValue(val.Elem())
HandleValuePtr ==
    /\ At_("handleValue", "enter")
    /\ Dispatch(Kind(mem, Top.val)) = "handleValue"
    /\ StackLeft
    /\ IF Applies("Elem", mem, Top.val)
       THEN /\ stack' = CallFrom(Frame("handleValue", Elem(mem, Top.val), <<>>))
            /\ UNCHANGED <<mem, orig, past, env, th, ret, state, result, calls>>
       ELSE Panics

\* handleValue, no case: return nil
HandleValueNil ==
    /\ At_("handleValue", "enter")
    /\ Dispatch(Kind(mem, Top.val)) = "return"
    /\ stack' = Pop
    /\ ret' = Returned(NilErr)
    /\ UNCHANGED <<mem, orig, past, env, th, state, result, calls>>

\* handleValue returns what the function it called returned
HandleValueReturn ==
    /\ At_("handleValue", "wait")
    /\ ret.set
    /\ stack' = Pop
    /\ UNCHANGED <<mem, orig, past, env, th, ret, state, result, calls>>

\* the fields taken from the last to the first
HandlerArgs_Backwards(m, val, i) ==
    [value |-> Field(m, val, NumField(m, val) - 1 - i),
     field |-> TypeFields(Type(m, val))[NumField(m, val) - i]]

\* the arguments of th.HandlerFn(val.Field(i), typ.Field(i))
HandlerArgs(m, val, i) ==
    [value |-> Field(m, val, i), field |-> TypeFields(Type(m, val))[i + 1]]

\* a handler that keeps the error of the walk before this one and returns
\* it again without looking at the field
Invoke_Stale(value, field) ==
    IF past # <<>> /\ past[Len(past)].result # NilErr
    THEN {Return(past[Len(past)].result, mem)}
    ELSE HandlerFn(th, mem, env, value, field)

\* th.HandlerFn(value, field) on the value graph and environment as they are
Invoke(value, field) == HandlerFn(th, mem, env, value, field)

\* the record of an invocation: the place, flags and descriptor of the
\* field, its content before and after, and what the handler returned
Invocation(value, field, out) ==
    [path |-> value.path, name |-> field.Name, err |-> out.err, panic |-> out.panic,
     field |-> field, addr |-> value.addr, ro |-> value.ro,
     was |-> At(mem, value.path), now |-> At(out.mem, value.path)]

\* handleStruct: the loop test and th.HandlerFn(val.Field(i), typ.Field(i));
\* a non-nil error is returned at once
HandleStructField ==
    /\ At_("handleStruct", "enter")
    /\ IF ~Applies("NumField", mem, Top.val) THEN Panics
       ELSE /\ Top.i < NumField(mem, Top.val)
            /\ LET value == HandlerArgs(mem, Top.val, Top.i).value
                   field == HandlerArgs(mem, Top.val, Top.i).field
               IN \E out \in Invoke(value, field) :
                     /\ calls' = Append(calls, Invocation(value, field, out))
                     /\ mem' = out.mem
                     /\ IF out.panic
                        THEN state' = "panicked" /\ UNCHANGED <<stack, ret>>
                        ELSE IF Failed(out.err)
                        THEN /\ stack' = Pop
                             /\ ret' = Returned(out.err)
                             /\ UNCHANGED state
                        ELSE /\ stack' = WithTop([Top EXCEPT !.pc = "recurse"])
                             /\ UNCHANGED <<ret, state>>
            /\ UNCHANGED <<orig, past, env, th, result>>

\* handleStruct: th.handleValue(val.Field(i))
HandleStructRecurse ==
    /\ At_("handleStruct", "recurse")
    /\ StackLeft
    /\ stack' = CallFrom(Frame("handleValue", Field(mem, Top.val, Top.i), <<>>))
    /\ UNCHANGED <<mem, orig, past, env, th, ret, state, result, calls>>

\* handleArray: the loop test and th.handleValue(val.Index(i))
HandleArrayElem ==
    /\ At_("handleArray", "enter")
    /\ StackLeft
    /\ IF ~Applies("Len", mem, Top.val) \/ ~Applies("Index", mem, Top.val) THEN Panics
       ELSE /\ Top.i < ValueLen(mem, Top.val)
            /\ stack' = CallFrom(Frame("handleValue", Index(mem, Top.val, Top.i), <<>>))
            /\ UNCHANGED <<mem, orig, past, env, th, ret, state, result, calls>>

\* handleMap: the next key and th.handleValue(val.MapIndex(key))
HandleMapValue ==
    /\ At_("handleMap", "enter")
    /\ StackLeft
    /\ Top.i < Len(Top.keys)
    /\ stack' = CallFrom(Frame("handleValue", MapIndex(mem, Top.val, Top.keys[Top.i + 1]), <<>>))
    /\ UNCHANGED <<mem, orig, past, env, th, ret, state, result, calls>>

\* the number of rounds of a frame's loop
Rounds(f) ==
    CASE f.fn = "handleStruct" -> NumField(mem, f.val)
      [] f.fn = "handleArray" -> ValueLen(mem, f.val)
      [] f.fn = "handleMap" -> Len(f.keys)

Loops == {"handleStruct", "handleArray", "handleMap"}

\* the loop of handleStruct, handleArray or handleMap is over: return nil
LoopReturn ==
    /\ state = "running"
    /\ stack # <<>>
    /\ Top.fn \in Loops
    /\ Top.pc = "enter"
    /\ Applies(IF Top.fn = "handleStruct" THEN "NumField"
               ELSE IF Top.fn = "handleArray" THEN "Len" ELSE "MapKeys", mem, Top.val)
    /\ Top.i >= Rounds(Top)
    /\ stack' = Pop
    /\ ret' = Returned(NilErr)
    /\ UNCHANGED <<mem, orig, past, env, th, state, result, calls>>

\* th.handleValue returned into a loop: if err != nil { return err }
LoopError ==
    /\ state = "running"
    /\ stack # <<>>
    /\ Top.fn \in Loops
    /\ Top.pc = "wait"
    /\ ret.set
    /\ Failed(ret.err)
    /\ stack' = Pop
    /\ UNCHANGED <<mem, orig, past, env, th, ret, state, result, calls>>

\* the loop without its i++: the same round again
LoopNext_Stay ==
    /\ state = "running"
    /\ stack # <<>>
    /\ Top.fn \in Loops
    /\ Top.pc = "wait"
    /\ ret.set
    /\ ~Failed(ret.err)
    /\ stack' = WithTop([Top EXCEPT !.pc = "enter"])
    /\ ret' = NoRet
    /\ UNCHANGED <<mem, orig, past, env, th, state, result, calls>>

\* th.handleValue returned nil into a loop: i++
LoopNext ==
    /\ state = "running"
    /\ stack # <<>>
    /\ Top.fn \in Loops
    /\ Top.pc = "wait"
    /\ ret.set
    /\ ~Failed(ret.err)
    /\ stack' = WithTop([Top EXCEPT !.i = @ + 1, !.pc = "enter"])
    /\ ret' = NoRet
    /\ UNCHANGED <<mem, orig, past, env, th, state, result, calls>>

\* Handle returns what handleValue returned
HandleReturn ==
    /\ state = "running"
    /\ stack = <<>>
    /\ ret.set
    /\ state' = "returned"
    /\ result' = ret.err
    /\ ret' = NoRet
    /\ UNCHANGED <<mem, orig, past, env, th, stack, calls>>

Next ==
    \/ Handle
    \/ HandleValueStruct
    \/ HandleValueArray
    \/ HandleValueMap
    \/ HandleValuePtr
    \/ HandleValueNil
    \/ HandleValueReturn
    \/ HandleStructField
    \/ HandleStructRecurse
    \/ HandleArrayElem
    \/ HandleMapValue
    \/ LoopReturn
    \/ LoopError
    \/ LoopNext
    \/ HandleReturn

Spec == Init /\ [][Next]_vars


(***************************************************************************)
(* Handle called again: the caller hands the value a walk has returned     *)
(* from to Handle once more, under the same handler and environment.       *)
(***************************************************************************)
\* the number of walks of one value
MaxWalks == 2

WalkPersons ==
    {PersonV(y, e, fs) : y \in {1990, 195}, e \in {GoodEmail, BadEmail},
                         fs \in {<<>>} \cup {<<f>> : f \in Friends}}

WalkInputs ==
    {Input(v, "handleValidateTag", NoEnv) : v \in WalkPersons \cup AccountRoots \cup TeamRoots}
    \cup {Input(v, "handleConfigTag", e) : v \in ConfigRoots, e \in ConfigEnvs}
    \cup {Input(v, "handleConfigTag", e) : v \in OptionsRoots, e \in OptionsEnvs}

InitWalks ==
    /\ \E input \in WalkInputs :
          /\ mem = input.v
          /\ orig = input.v
          /\ env = input.env
          /\ th = input.th
    /\ past = <<>>
    /\ stack = <<>>
    /\ ret = NoRet
    /\ state = "ready"
    /\ result = NilErr
    /\ calls = <<>>

\* the walks whose end is checked: the values above under the handlers of
\* main.go, and under a handler that may fail anywhere a Person with two
\* friends, the values with maps, arrays and pointers, and those that are
\* no struct
FairInputs ==
    WalkInputs
    \cup {Input(v, h, NoEnv) :
            v \in {PersonV(1990, GoodEmail, <<f, f>>) : f \in Friends}, h \in Handlers}
    \cup {Input(v, "anyHandler", NoEnv) : v \in TeamRoots \cup OtherRoots}

InitFair ==
    /\ \E input \in FairInputs :
          /\ mem = input.v
          /\ orig = input.v
          /\ env = input.env
          /\ th = input.th
    /\ past = <<>>
    /\ stack = <<>>
    /\ ret = NoRet
    /\ state = "ready"
    /\ result = NilErr
    /\ calls = <<>>

\* the walk is one sequential computation: as long as it has a next step it
\* takes it
FairSpec == InitFair /\ [][Next]_vars /\ WF_vars(Next)

\* Handle has returned and the caller is about to call it again
Again ==
    /\ state = "returned"
    /\ Len(past) + 1 < MaxWalks
    /\ past' = Append(past, [calls |-> calls, result |-> result, from |-> orig, to |-> mem])
    /\ orig' = mem
    /\ calls' = <<>>
    /\ result' = NilErr
    /\ state' = "ready"
    /\ UNCHANGED <<mem, env, th, stack, ret>>

NextWalks == Next \/ Again

SpecWalks == InitWalks /\ [][NextWalks]_vars

(***************************************************************************)
(* Values that hold a pointer back to themselves.  Every call of the walk  *)
(* takes a frame of the goroutine's stack, which the Go runtime bounds     *)
(* (at a size far beyond MaxDepth frames): a call past the bound ends the  *)
(* process with a stack overflow, and Handle does not return.              *)
(***************************************************************************)
RingV(val, peers, index, next) ==
    StructV("main.Ring", <<IntV(val), SliceV(peers), MapV(index), next>>)

\* r.Next = r; r.Peers = []*Ring{r}; r.Index[1] = r; a.Next = b, b.Next = a
RingRoots ==
    {PtrV(RingV(1, <<>>, <<>>, PtrUp(1))),
     PtrV(RingV(1, <<PtrUp(2)>>, <<>>, NilPtr)),
     PtrV(RingV(1, <<>>, 1 :> PtrUp(2), NilPtr)),
     PtrV(RingV(1, <<>>, <<>>, PtrV(RingV(2, <<>>, <<>>, PtrUp(3)))))}

InitCyclic ==
    /\ \E v \in RingRoots, h \in Handlers :
          /\ mem = v
          /\ orig = v
          /\ env = NoEnv
          /\ th = h
    /\ past = <<>>
    /\ stack = <<>>
    /\ ret = NoRet
    /\ state = "ready"
    /\ result = NilErr
    /\ calls = <<>>

\* the walk is about to call handleValue, handleStruct, handleArray or
\* handleMap
AboutToCall ==
    \/ At_("handleValue", "enter") /\ Dispatch(Kind(mem, Top.val)) # "return"
    \/ At_("handleStruct", "recurse")
    \/ At_("handleArray", "enter") /\ Top.i < ValueLen(mem, Top.val)
    \/ At_("handleMap", "enter") /\ Top.i < Len(Top.keys)

\* a call with the stack full: the runtime ends the process
StackOverflow ==
    /\ ~StackLeft
    /\ AboutToCall
    /\ state' = "overflow"
    /\ UNCHANGED <<mem, orig, past, env, th, stack, ret, result, calls>>

NextCyclic == Next \/ StackOverflow

\* the walk is one sequential computation: it takes its next step
SpecCyclic == InitCyclic /\ [][NextCyclic]_vars /\ WF_vars(NextCyclic)

(***************************************************************************)
(* What the claims speak of, read off the record of invocations.           *)
(***************************************************************************)
\* the invocations that returned a non-nil error
FailedCalls == {k \in 1..Len(calls) : calls[k].err # NilErr}

IsPrefix(p, q) == Len(p) <= Len(q) /\ SubSeq(q, 1, Len(p)) = p

\* the first position where two paths differ, none a prefix of the other
Fork(p, q) == CHOOSE d \in 1..Len(p) : p[d] # q[d] /\ SubSeq(p, 1, d - 1) = SubSeq(q, 1, d - 1)

\* the struct that holds the field at a path, and the field's descriptor
Parent(path) == SubSeq(path, 1, Len(path) - 1)

FieldOf(m, path) == TypeFields(At(m, Parent(path)).type)[path[Len(path)]]

RECURSIVE FieldOccurrences(_, _)
\* the places of the struct fields reachable from the value t at a path,
\* through structs, sequences, maps and non-nil pointers
FieldOccurrences(t, path) ==
    CASE t.kind = "struct" ->
           UNION {{Append(path, i)} \cup FieldOccurrences(t.fields[i], Append(path, i)) :
                    i \in 1..Len(t.fields)}
      [] t.kind \in {"slice", "array"} ->
           UNION {FieldOccurrences(t.elems[i], Append(path, i)) : i \in 1..Len(t.elems)}
      [] t.kind = "map" ->
           UNION {FieldOccurrences(t.m[k], Append(path, k)) : k \in DOMAIN t.m}
      [] t.kind = "ptr" ->
           IF t.isnil THEN {} ELSE FieldOccurrences(t.elem, Append(path, 0))
      [] OTHER -> {}

\* C1: fail-fast.  Once an invocation of HandlerFn has returned a non-nil
\* error, the walk is not stuck, and every further step invokes nothing
\* and unwinds: it leaves a frame or is the return of Handle.
C1_FailFast ==
    /\ [](FailedCalls # {} => state = "returned" \/ ENABLED Next)
    /\ [][FailedCalls # {} =>
            /\ calls' = calls
            /\ state' # "panicked"
            /\ Len(stack') < Len(stack) \/ state' = "returned"]_vars

\* a walk that stopped at the failure of the first of several fields, with
\* fields nested below it left unvisited
C1_Witness ==
    /\ state = "returned"
    /\ Len(calls) = 1
    /\ calls[1].err # NilErr
    /\ orig.kind = "struct"
    /\ Cardinality(FieldOccurrences(orig, <<>>)) > 6

\* C2: Handle returns a non-nil error exactly when some invocation of
\* HandlerFn returned one, it returns the error of the first such invocation
\* as it is, and nothing but an invocation of HandlerFn makes the walk panic.
C2_ErrorIsFirstFailure ==
    /\ state = "returned" =>
          /\ result # NilErr <=> FailedCalls # {}
          /\ FailedCalls # {} =>
                result = calls[CHOOSE k \in FailedCalls : \A l \in FailedCalls : k <= l].err
    /\ state = "panicked" => calls # <<>> /\ calls[Len(calls)].panic

\* a walk that returned the error of an invocation that was not the first
C2_Witness ==
    /\ state = "returned"
    /\ result # NilErr
    /\ Len(calls) > 3
    /\ result = calls[Len(calls)].err

\* C3: pre-order, declaration order.  Of two invocations the earlier is
\* never on a field inside the later's field; where their places part in a
\* struct (or a sequence) the earlier is on the lower field (or element);
\* and an invocation on a field inside another field's value comes after a
\* successful invocation on that field.
C3_PreOrder ==
    /\ \A k, l \in 1..Len(calls) :
          k < l =>
             LET p == calls[k].path
                 q == calls[l].path
             IN /\ ~IsPrefix(q, p)
                /\ ~IsPrefix(p, q) =>
                      (At(orig, SubSeq(p, 1, Fork(p, q) - 1)).kind
                           \in {"struct", "slice", "array"}
                         => p[Fork(p, q)] < q[Fork(p, q)])
    /\ \A l \in 1..Len(calls) :
          \A n \in 1..(Len(calls[l].path) - 1) :
             LET a == SubSeq(calls[l].path, 1, n)
             IN At(orig, Parent(a)).kind = "struct" =>
                   \E k \in 1..(l - 1) : calls[k].path = a /\ calls[k].err = NilErr

\* a finished walk of a struct that holds a struct between two other fields
C3_Witness ==
    /\ state = "returned"
    /\ orig.kind = "struct"
    /\ \E k \in 1..Len(calls) :
          /\ k + 3 <= Len(calls)
          /\ calls[k].path = <<2>>
          /\ calls[k + 1].path = <<2, 1>>
          /\ calls[k + 2].path = <<2, 2>>
          /\ calls[k + 3].path = <<3>>

\* C4: when a walk in which every invocation succeeded has returned,
\* HandlerFn has been invoked once for each struct field reachable from the
\* root through structs, sequences, maps and non-nil pointers, and for
\* nothing else.
C4_OncePerField ==
    (state = "returned" /\ result = NilErr) =>
        /\ {calls[k].path : k \in 1..Len(calls)} = FieldOccurrences(orig, <<>>)
        /\ Len(calls) = Cardinality(FieldOccurrences(orig, <<>>))

\* a successful walk of a Team: a pointer to a Person, a map and an array of
\* Names, and a slice of strings, whose elements are no fields
C4_Witness ==
    /\ state = "returned"
    /\ result = NilErr
    /\ orig.kind = "struct"
    /\ orig.type = "main.Team"
    /\ ~orig.fields[1].isnil
    /\ DOMAIN orig.fields[2].m # {}
    /\ orig.fields[4].elems # <<>>
    /\ Len(calls) = 18

\* the invocation a step has just made, if it made one
Invoked == Len(calls') = Len(calls) + 1

\* some struct field on the way to a path is unexported
ThroughUnexported(m, path) ==
    \E n \in 1..Len(path) :
        /\ At(m, SubSeq(path, 1, n - 1)).kind = "struct"
        /\ FieldOf(m, SubSeq(path, 1, n)).PkgPath # ""

\* the decimal digits of a natural number, the least significant first
RECURSIVE DigitsOf(_)
DigitsOf(n) == IF n < 10 THEN <<n>> ELSE <<n % 10>> \o DigitsOf(n \div 10)

\* str writes the integer n in base 10: an optional "-", then the digits of
\* the magnitude, the most significant first
IsDecimalOf(str, n) ==
    LET mag == IF n < 0 THEN -n ELSE n
        ds  == DigitsOf(mag)
        off == IF n < 0 THEN 1 ELSE 0
    IN /\ Len(str) = Len(ds) + off
       /\ n < 0 => str[1] = "-"
       /\ \A k \in 1..Len(ds) : str[off + k] = Digits[ds[Len(ds) + 1 - k] + 1]

C6_InvalidPatternNamesField ==
    th = "handleValidateTag" =>
      \A k \in 1..Len(calls) :
        LET c     == calls[k]
            field == FieldOf(orig, c.path)
            tag   == Lookup(field.Tag, "validate")
        IN (tag.ok /\ ~Compile(tag.val).ok) =>
              /\ c.err # NilErr
              /\ c.err.fmt # "invalid field (%v::%v) %v != %v"
              /\ c.err.cause = Compile(tag.val).code
              /\ c.err.str = <<>>
              /\ c.err.name = field.Name

\* C7: after a successful walk with handleConfigTag every conf-annotated
\* string field whose variable is set holds the variable's content, and
\* every conf-annotated int field whose variable is set holds the integer
\* the content writes in base 10 ("5" gives 5); the value changed is the one
\* the caller's pointer points to.
C7_ConfigPopulated ==
    (th = "handleConfigTag" /\ state = "returned" /\ result = NilErr) =>
      \A p \in FieldOccurrences(orig, <<>>) :
        LET tag     == Lookup(FieldOf(orig, p).Tag, "conf")
            content == env[tag.val]
            unsigned == IF content # <<>> /\ content[1] = "+" THEN Tail(content)
                        ELSE content
            v       == At(mem, p)
        IN (tag.ok /\ tag.val \in DOMAIN env) =>
              /\ v.kind = "string" => v.s = content
              /\ v.kind = "int" => IsDecimalOf(unsigned, v.n)
              /\ (v.kind = "int" /\ content = <<"5">>) => v.n = 5

\* Handle(&cfg) on the zero Config with HTTP_MAX_RETRIES=5 and
\* ELASTICSEARCH_HOST=abc has returned nil and cfg holds 5 and "abc"
C7_Witness ==
    /\ th = "handleConfigTag"
    /\ state = "returned"
    /\ result = NilErr
    /\ orig = PtrV(ZeroConfig)
    /\ env = [v \in ConfigVars |->
                IF v = "HTTP_MAX_RETRIES" THEN <<"5">> ELSE <<"a", "b", "c">>]
    /\ mem = PtrV(ConfigV(5, <<"a", "b", "c">>))

\* C8: an invocation of handleConfigTag on a field without a conf annotation,
\* or with one whose variable is unset, returns nil and changes nothing.
C8_UnsetLeavesField ==
    [][(th = "handleConfigTag" /\ Invoked) =>
          LET c   == calls'[Len(calls')]
              tag == Lookup(FieldOf(mem, c.path).Tag, "conf")
          IN (~tag.ok \/ tag.val \notin DOMAIN env) =>
                /\ c.err = NilErr
                /\ ~c.panic
                /\ mem' = mem]_vars

\* with only ELASTICSEARCH_HOST set, the handler has been invoked on the
\* HttpMaxRetries field of a Config that held 3
C8_Witness ==
    /\ th = "handleConfigTag"
    /\ orig = PtrV(SetConfig)
    /\ DOMAIN env = {"ELASTICSEARCH_HOST"}
    /\ Len(calls) = 1
    /\ calls[1].name = "HttpMaxRetries"
    /\ calls[1].err = NilErr
    /\ At(mem, <<0, 1>>).n = 3

\* C9 as claimed: on an int field whose variable is set to content that is
\* no base-10 integer, handleConfigTag returns an error carrying the field's
\* name and the content.
C9_ParseErrorNamesField ==
    th = "handleConfigTag" =>
      \A k \in 1..Len(calls) :
        LET c     == calls[k]
            field == FieldOf(orig, c.path)
            tag   == Lookup(field.Tag, "conf")
        IN (/\ tag.ok
            /\ tag.val \in DOMAIN env
            /\ At(orig, c.path).kind = "int"
            /\ env[tag.val] \in {<<"a", "b", "c">>, <<>>}) =>
              /\ c.err # NilErr
              /\ c.err.str = env[tag.val]
              /\ c.err.name = field.Name

\* C10: an invocation of handleConfigTag on a conf-annotated field whose kind
\* is neither string nor int, its variable set, returns nil and changes
\* nothing.
C10_OtherKindsIgnored ==
    [][(th = "handleConfigTag" /\ Invoked) =>
          LET c   == calls'[Len(calls')]
              tag == Lookup(FieldOf(mem, c.path).Tag, "conf")
          IN (/\ tag.ok
              /\ tag.val \in DOMAIN env
              /\ At(mem, c.path).kind \notin {"string", "int"}) =>
                /\ c.err = NilErr
                /\ ~c.panic
                /\ mem' = mem]_vars

\* with every variable of Options set to "abc", a walk has passed its bool,
\* int64, struct, pointer and slice fields and returned nil
C10_Witness ==
    /\ th = "handleConfigTag"
    /\ state = "returned"
    /\ result = NilErr
    /\ orig = PtrV(OptionsV(NilPtr))
    /\ env = [v \in OptionsVars |-> <<"a", "b", "c">>]
    /\ {calls[k].name : k \in 1..Len(calls)}
          = {"Debug", "Limit", "Owner", "FirstName", "LastName", "Backup", "Hosts"}
    /\ mem = orig

\* a Person's own BirthYear and Email match their patterns
OwnFieldsMatch(p) ==
    /\ MatchString(Compile(YearPattern).re, FormatInt(p.fields[1].n))
    /\ MatchString(Compile(EmailPattern).re, p.fields[3].s)

\* the friends of a Person that are there: the places in Friends of the
\* pointers that are not nil
FriendsOf(p) == {j \in 1..Len(p.fields[4].elems) : ~p.fields[4].elems[j].isnil}

FriendAt(p, j) == p.fields[4].elems[j].elem

\* C11: walking a Person with handleValidateTag never panics; it returns nil
\* when the BirthYear and Email of the root and of every friend match their
\* patterns; and when all of them match but the Email of one friend, it
\* returns the mismatch error of that friend's Email field: the error's
\* value is that friend's Email, not the root's, and the failing invocation
\* is the one on that friend's field.
C11_PersonEndToEnd ==
    (th = "handleValidateTag" /\ orig.kind = "struct" /\ orig.type = "main.Person") =>
        /\ state # "panicked"
        /\ state = "returned" =>
              /\ (/\ OwnFieldsMatch(orig)
                  /\ \A j \in FriendsOf(orig) : OwnFieldsMatch(FriendAt(orig, j)))
                    => result = NilErr
              /\ \A j \in FriendsOf(orig) :
                    (/\ OwnFieldsMatch(orig)
                     /\ \A i \in FriendsOf(orig) \ {j} : OwnFieldsMatch(FriendAt(orig, i))
                     /\ MatchString(Compile(YearPattern).re,
                                    FormatInt(FriendAt(orig, j).fields[1].n))
                     /\ ~MatchString(Compile(EmailPattern).re, FriendAt(orig, j).fields[3].s))
                       => /\ result # NilErr
                          /\ result.fmt = "invalid field (%v::%v) %v != %v"
                          /\ result.name = "Email"
                          /\ result.str = FriendAt(orig, j).fields[3].s
                          /\ result.str # orig.fields[3].s
                          /\ calls[Len(calls)].path = <<4, j, 0, 3>>
                          /\ calls[Len(calls)].err = result

\* a Person with two friends, all valid but the second friend's Email: the
\* walk returned the error of that Email after passing the root's and the
\* first friend's
C11_Witness ==
    /\ th = "handleValidateTag"
    /\ state = "returned"
    /\ orig = PersonV(1990, GoodEmail,
                      <<PtrV(PersonV(1990, GoodEmail, <<>>)),
                        PtrV(PersonV(1990, BadEmail, <<>>))>>)
    /\ result.name = "Email"
    /\ result.str = BadEmail
    /\ calls[Len(calls)].path = <<4, 2, 0, 3>>
    /\ \E k \in 1..Len(calls) : calls[k].path = <<4, 1, 0, 3>> /\ calls[k].err = NilErr

\* the length of the sequence a frame of handleArray walks
SeqLen(f) == Len(At(mem, f.val.path).elems)

\* C12: handleArray takes the elements of an array or slice in index order.
\* Its counter starts at 0; each call it makes is handleValue on the element
\* at the counter; the counter moves on by one, and only when that call has
\* returned nil; it returns nil after the last element and returns a
\* failure as soon as an element's walk returned one.  An empty sequence
\* makes no call and invokes nothing, and its walk returns nil.
C12_SequenceOrder ==
    /\ []((state = "returned" /\ orig.kind \in {"slice", "array"} /\ orig.elems = <<>>)
             => (calls = <<>> /\ result = NilErr))
    /\ [][(Len(stack') > Len(stack) /\ stack'[Len(stack')].fn = "handleArray")
             => stack'[Len(stack')].i = 0]_vars
    /\ [][\A k \in 1..Len(stack) :
            stack[k].fn = "handleArray" =>
              IF Len(stack') >= k
              THEN /\ stack'[k].fn = "handleArray"
                   /\ stack'[k].val = stack[k].val
                   /\ stack'[k].i \in {stack[k].i, stack[k].i + 1}
                   /\ stack'[k].i = stack[k].i + 1 =>
                         (k = Len(stack) /\ ret.set /\ ret.err = NilErr)
                   /\ (Len(stack) = k /\ Len(stack') = k + 1) =>
                         /\ stack[k].i < SeqLen(stack[k])
                         /\ stack'[k + 1].fn = "handleValue"
                         /\ stack'[k + 1].val.path = Append(stack[k].val.path, stack[k].i + 1)
                   /\ SeqLen(stack[k]) = 0 => (calls' = calls /\ Len(stack') = k)
              ELSE /\ k = Len(stack)
                   /\ ret'.set
                   /\ calls' = calls
                   /\ ret'.err = NilErr => stack[k].i = SeqLen(stack[k])
                   /\ ret'.err # NilErr => (stack[k].i < SeqLen(stack[k]) /\ ret' = ret)
                   /\ SeqLen(stack[k]) = 0 => ret'.err = NilErr]_vars

\* handleArray is walking the second element of a sequence, the first
\* element's walk having invoked the handler and returned nil
C12_Witness ==
    /\ calls # <<>>
    /\ FailedCalls = {}
    /\ \E k \in 1..(Len(stack) - 1) :
          /\ stack[k].fn = "handleArray"
          /\ stack[k].i = 1
          /\ stack[k].pc = "wait"
          /\ stack[k + 1].val.path = Append(stack[k].val.path, 2)
          /\ IsPrefix(Append(stack[k].val.path, 1), calls[Len(calls)].path)

RECURSIVE Reachable(_, _)
\* the path leads to a value that is there: it passes no nil pointer and
\* no scalar
Reachable(t, path) ==
    IF path = <<>> THEN TRUE
    ELSE LET k == Head(path)
         IN CASE t.kind = "struct" ->
                   k \in 1..Len(t.fields) /\ Reachable(t.fields[k], Tail(path))
              [] t.kind \in {"slice", "array"} ->
                   k \in 1..Len(t.elems) /\ Reachable(t.elems[k], Tail(path))
              [] t.kind = "map" -> k \in DOMAIN t.m /\ Reachable(t.m[k], Tail(path))
              [] t.kind = "ptr" -> k = 0 /\ ~t.isnil /\ Reachable(t.elem, Tail(path))
              [] OTHER -> FALSE

\* C13: a nil pointer is no error and has nothing to visit.  Handle on a
\* nil pointer returns nil without an invocation; no invocation is on a
\* place behind a nil pointer, and a successful walk has invoked the handler
\* once on every field that holds a nil pointer; the walk of the absent
\* target returns nil at once.  A pointer that is not nil is walked as the
\* value it points to: handleValue is called on that value and what it
\* returns is returned as it is.
C13_NilPointer ==
    /\ [](orig = NilPtr =>
            /\ state # "panicked"
            /\ state = "returned" => (result = NilErr /\ calls = <<>>))
    /\ [](\A l \in 1..Len(calls) : Reachable(orig, calls[l].path))
    /\ []((state = "returned" /\ result = NilErr) =>
            \A p \in FieldOccurrences(orig, <<>>) :
               (At(orig, p).kind = "ptr" /\ At(orig, p).isnil) =>
                  Cardinality({l \in 1..Len(calls) : calls[l].path = p}) = 1)
    /\ [](\A k \in 1..(Len(stack) - 1) :
            (/\ stack[k].fn = "handleValue"
             /\ stack[k].val.valid
             /\ At(mem, stack[k].val.path).kind = "ptr") =>
                /\ stack[k + 1].fn = "handleValue"
                /\ stack[k + 1].val.valid = ~At(mem, stack[k].val.path).isnil
                /\ stack[k + 1].val.valid =>
                      stack[k + 1].val.path = Append(stack[k].val.path, 0))
    /\ [][(state = "running" /\ stack # <<>> /\ Top.fn = "handleValue") =>
            /\ ~Top.val.valid =>
                  (stack' = Pop /\ ret' = [set |-> TRUE, err |-> NilErr] /\ calls' = calls)
            /\ (Top.pc = "wait" /\ Len(stack') < Len(stack)) => ret' = ret]_vars

\* a Team whose Lead is nil has been walked: one invocation on Lead, the
\* next one on Members
C13_Witness ==
    /\ state = "returned"
    /\ result = NilErr
    /\ orig.kind = "struct"
    /\ orig.type = "main.Team"
    /\ orig.fields[1] = NilPtr
    /\ calls[1].path = <<1>>
    /\ calls[1].name = "Lead"
    /\ calls[2].path = <<2>>

\* how a walk that has ended ended
Outcome ==
    IF state = "panicked" THEN "panic"
    ELSE IF result = NilErr THEN "success" ELSE "failure"

\* the keys of a map in ascending order
Ascending(keys) ==
    CHOOSE o \in KeyOrders(keys) : \A a, b \in DOMAIN o : a < b => o[a] < o[b]

Step(op, value, field) == [op |-> op, value |-> value, field |-> field]

\* the steps of the walk of one value: for a struct the invocation on each
\* field and then the walk of the field, for a map the walks of its values
\* by ascending key
StepsOf(m, val) ==
    LET kind == Kind(m, val)
    IN CASE kind = "struct" ->
              [n \in 1..(2 * NumField(m, val)) |->
                  IF n % 2 = 1
                  THEN Step("call", Field(m, val, (n - 1) \div 2),
                            TypeFields(Type(m, val))[(n + 1) \div 2])
                  ELSE Step("walk", Field(m, val, (n - 2) \div 2), NoTag)]
         [] kind \in {"slice", "array"} ->
              [n \in 1..ValueLen(m, val) |-> Step("walk", Index(m, val, n - 1), NoTag)]
         [] kind = "map" ->
              [n \in 1..Cardinality(MapKeys(m, val)) |->
                  Step("walk", MapIndex(m, val, Ascending(MapKeys(m, val))[n]), NoTag)]
         [] kind = "ptr" -> <<Step("walk", Elem(m, val), NoTag)>>
         [] OTHER -> <<>>

RECURSIVE AscendingOutcome(_, _)
\* how the walk with handleValidateTag ends when every map presents its
\* keys in ascending order; todo holds the steps still to take
AscendingOutcome(m, todo) ==
    IF todo = <<>> THEN "success"
    ELSE LET step == Head(todo)
             out  == handleValidateTag(m, step.value, step.field)
         IN IF step.op = "walk"
            THEN AscendingOutcome(m, StepsOf(m, step.value) \o Tail(todo))
            ELSE IF out.panic THEN "panic"
            ELSE IF out.err # NilErr THEN "failure"
            ELSE AscendingOutcome(m, Tail(todo))

\* C14 as claimed: with handleValidateTag, whether Handle returns nil or a
\* failure does not depend on the order in which the keys of a map come: a
\* walk ends as the walk that takes the keys in ascending order ends.
C14_MapOrderIndependent ==
    (th = "handleValidateTag" /\ state \in {"returned", "panicked"}) =>
        Outcome = AscendingOutcome(orig, <<Step("walk", ValueOf(orig), NoTag)>>)

\* a field the config handler may assign: conf-annotated, a string or an int
Assignable(field, v) == "conf" \in DOMAIN field.Tag /\ v.kind \in {"string", "int"}

RECURSIVE Erased(_)
\* a value with the contents of its assignable fields blanked: what is left
\* is its shape and everything the config handler has no business with
Erased(t) ==
    CASE t.kind = "struct" ->
           [t EXCEPT !.fields =
               [i \in DOMAIN t.fields |->
                   IF Assignable(TypeFields(t.type)[i], t.fields[i])
                   THEN [kind |-> t.fields[i].kind]
                   ELSE Erased(t.fields[i])]]
      [] t.kind \in {"slice", "array"} ->
           [t EXCEPT !.elems = [i \in DOMAIN t.elems |-> Erased(t.elems[i])]]
      [] t.kind = "map" -> [t EXCEPT !.m = [k \in DOMAIN t.m |-> Erased(t.m[k])]]
      [] t.kind = "ptr" -> IF t.isnil THEN t ELSE [t EXCEPT !.elem = Erased(t.elem)]
      [] OTHER -> t

\* C15: the walker changes nothing.  Under handleValidateTag (and under a
\* handler that assigns nothing) the value graph stays as it was; under
\* handleConfigTag it stays as it was but for the contents of conf-annotated
\* string and int fields; no step but an invocation of the handler changes
\* the graph, and the environment is left alone.
C15_Frame ==
    /\ [](th # "handleConfigTag" => mem = orig)
    /\ [](Erased(mem) = Erased(orig))
    /\ [][~Invoked => mem' = mem]_vars
    /\ [][env' = env /\ th' = th /\ orig' = orig]_vars

\* a slice of two Configs behind pointers, and a nil pointer between them,
\* has been populated: both Configs changed, the slice as long as it was
C15_Witness ==
    /\ th = "handleConfigTag"
    /\ state = "returned"
    /\ orig = SliceV(<<PtrV(ZeroConfig), NilPtr, PtrV(SetConfig)>>)
    /\ mem = SliceV(<<PtrV(ConfigV(5, <<"a", "b", "c">>)), NilPtr,
                      PtrV(ConfigV(5, <<"a", "b", "c">>))>>)

\* every invocation so far, those of the walks before this one first
AllCalls ==
    UNION {{past[w].calls[k] : k \in 1..Len(past[w].calls)} : w \in 1..Len(past)}
    \cup {calls[k] : k \in 1..Len(calls)}

C17_KindSafe ==
    /\ \A k \in 1..Len(stack) :
          /\ stack[k].fn = "handleStruct" => Kind(mem, stack[k].val) = "struct"
          /\ stack[k].fn = "handleArray" => Kind(mem, stack[k].val) \in {"array", "slice"}
          /\ stack[k].fn = "handleMap" => Kind(mem, stack[k].val) = "map"
          /\ (k < Len(stack) /\ stack[k].fn = "handleValue" /\ stack[k + 1].fn = "handleValue")
                => Kind(mem, stack[k].val) = "ptr"
          /\ ~stack[k].val.valid =>
                (stack[k].fn = "handleValue" /\ stack[k].pc = "enter" /\ k = Len(stack))
    /\ state = "panicked" => (calls # <<>> /\ calls[Len(calls)].panic)

\* the walk of a struct has come, through a slice, to a nil pointer and
\* holds the invalid value of its target
C17_Witness ==
    /\ state = "running"
    /\ Len(stack) > 4
    /\ ~Top.val.valid
    /\ stack[Len(stack) - 1].fn = "handleValue"
    /\ stack[Len(stack) - 2].fn = "handleArray"
    /\ stack[2].fn = "handleStruct"

\* C18: the walk of a value that holds a pointer back to itself, under a
\* handler that reports no failure, does not return: as long as no
\* invocation has failed Handle has neither returned nor panicked, and the
\* walk goes on calling until the stack, whatever it holds, is full.
C18_CyclicNeverReturns ==
    /\ [](FailedCalls = {} => state \notin {"returned", "panicked"})
    /\ [](FailedCalls = {} /\ state = "running" => ENABLED NextCyclic)
    /\ <>(FailedCalls # {} \/ state = "overflow")

\* the walk is back on a field it has invoked the handler on before, with
\* the stack full
C18_Witness ==
    /\ FailedCalls = {}
    /\ Len(stack) = MaxDepth
    /\ \E k, l \in 1..Len(calls) :
          k < l /\ calls[k].path = calls[l].path /\ calls[k].name = "Next"

\* C19: the walk of a value without a cycle ends: Handle returns, or the
\* handler panics.  Until then the handler is invoked at most once on each
\* struct field reachable from the root, a field being counted once for each
\* path that leads to it, and on nothing else; and the stack stays below
\* its bound.
C19_Terminates ==
    /\ <>(state \in {"returned", "panicked"})
    /\ [](Len(calls) <= Cardinality(FieldOccurrences(orig, <<>>)))
    /\ [](\A k, l \in 1..Len(calls) : calls[k].path = calls[l].path => k = l)
    /\ []({calls[k].path : k \in 1..Len(calls)} \subseteq FieldOccurrences(orig, <<>>))
    /\ [](Len(stack) < MaxDepth)

\* a Person whose two friends are equal has been walked to the end: each
\* friend's fields were visited, once by each path
C19_Witness ==
    /\ state = "returned"
    /\ result = NilErr
    /\ orig.kind = "struct"
    /\ orig.type = "main.Person"
    /\ Len(orig.fields[4].elems) = 2
    /\ orig.fields[4].elems[1] = orig.fields[4].elems[2]
    /\ orig.fields[4].elems[1] # NilPtr
    /\ \E k, l \in 1..Len(calls) :
          calls[k].path = <<4, 1, 0, 1>> /\ calls[l].path = <<4, 2, 0, 1>>
    /\ Len(calls) = 18

\* the places the handler has been invoked on in this walk
Visited == {calls[k].path : k \in 1..Len(calls)}

\* C20: a walk with handleConfigTag that fails is not rolled back.  When
\* Handle has returned the handler's error, the field it failed on holds
\* what it held before, every conf-annotated string or int field visited
\* before it whose variable is set holds the variable's content, and every
\* field not visited holds what it held before.
C20_NoRollback ==
    (th = "handleConfigTag" /\ state = "returned" /\ result # NilErr) =>
        /\ calls[Len(calls)].err = result
        /\ At(mem, calls[Len(calls)].path) = At(orig, calls[Len(calls)].path)
        /\ \A k \in 1..(Len(calls) - 1) :
              LET p       == calls[k].path
                  tag     == Lookup(FieldOf(orig, p).Tag, "conf")
                  content == env[tag.val]
                  unsigned == IF content # <<>> /\ content[1] = "+" THEN Tail(content)
                              ELSE content
              IN IF tag.ok /\ tag.val \in DOMAIN env /\ At(orig, p).kind \in {"string", "int"}
                 THEN /\ At(orig, p).kind = "string" => At(mem, p) = StringV(content)
                      /\ At(orig, p).kind = "int" =>
                            (At(mem, p).kind = "int" /\ IsDecimalOf(unsigned, At(mem, p).n))
                 ELSE Erased(At(mem, p)) = Erased(At(orig, p))
        /\ \A p \in FieldOccurrences(orig, <<>>) \ Visited : At(mem, p) = At(orig, p)

\* a Server whose Host was assigned before the walk failed on Retries:
\* Retries and Fallback are as they were, though Fallback's variable is set
C20_Witness ==
    /\ th = "handleConfigTag"
    /\ state = "returned"
    /\ result # NilErr
    /\ orig = PtrV(ServerV(<<"h">>, 3, <<"f">>))
    /\ mem = PtrV(ServerV(<<"a", "b", "c">>, 3, <<"f">>))
    /\ Len(calls) = 2

RECURSIVE Places(_, _)
\* every place of the value t at a path: the path and the places below it
Places(t, path) ==
    {path} \cup
    CASE t.kind = "struct" ->
           UNION {Places(t.fields[i], Append(path, i)) : i \in 1..Len(t.fields)}
      [] t.kind \in {"slice", "array"} ->
           UNION {Places(t.elems[i], Append(path, i)) : i \in 1..Len(t.elems)}
      [] t.kind = "map" -> UNION {Places(t.m[k], Append(path, k)) : k \in DOMAIN t.m}
      [] t.kind = "ptr" ->
           IF t.isnil \/ "up" \in DOMAIN t THEN {} ELSE Places(t.elem, Append(path, 0))
      [] OTHER -> {}

\* the structures handed to Handle by value or held as the value of a map
ByValue(t) ==
    {p \in Places(t, <<>>) :
        /\ At(t, p).kind = "struct"
        /\ p = <<>> \/ At(t, Parent(p)).kind = "map"}

\* the fields of a structure that are conf-annotated strings or ints whose
\* variable is set
SetFields(t, p, e) ==
    {i \in 1..Len(At(t, p).fields) :
        /\ Assignable(TypeFields(At(t, p).type)[i], At(t, p).fields[i])
        /\ TypeFields(At(t, p).type)[i].Tag.conf \in DOMAIN e}

RECURSIVE Own(_)
\* what of a value is the caller's own when the value is passed as it is:
\* the value without what lies behind its pointers and in its slices
Own(t) ==
    CASE t.kind = "struct" -> [t EXCEPT !.fields = [i \in DOMAIN t.fields |-> Own(t.fields[i])]]
      [] t.kind = "array" -> [t EXCEPT !.elems = [i \in DOMAIN t.elems |-> Own(t.elems[i])]]
      [] t.kind = "map" -> [t EXCEPT !.m = [k \in DOMAIN t.m |-> Own(t.m[k])]]
      [] t.kind = "ptr" -> [kind |-> "ptr", isnil |-> t.isnil]
      [] t.kind = "slice" -> [kind |-> "slice", len |-> Len(t.elems)]
      [] OTHER -> t

\* C21 as claimed: when a structure passed to Handle by value, or held as a
\* map value, has a conf-annotated string or int field whose variable is
\* set, the walk with handleConfigTag does not return, neither nil nor an
\* error: it panics, and the structure is as it was.
C21_ByValuePanics ==
    (/\ th = "handleConfigTag"
     /\ state \in {"returned", "panicked"}
     /\ \E p \in ByValue(orig) : SetFields(orig, p, env) # {}) =>
        /\ state = "panicked"
        /\ \A p \in ByValue(orig) : Own(At(mem, p)) = Own(At(orig, p))

\* C21, amended: an invocation of handleConfigTag on a conf-annotated string
\* or int field whose variable is set and that is not addressable assigns
\* nothing: on an int field whose variable's content does not parse it
\* returns the parse error, which Handle returns; on any other it panics,
\* and from then on Handle does not return.  The fields of a structure
\* passed by value or held as a map value are not addressable, and such a
\* structure is never changed.
C21_Unaddressable ==
    /\ [][(th = "handleConfigTag" /\ Invoked) =>
            LET c   == calls'[Len(calls')]
                tag == Lookup(c.field.Tag, "conf")
                n   == Atoi(env[tag.val])
            IN (/\ tag.ok
                /\ tag.val \in DOMAIN env
                /\ c.was.kind \in {"string", "int"}
                /\ ~c.addr) =>
                  /\ mem' = mem
                  /\ IF c.was.kind = "int" /\ ~n.ok
                     THEN ~c.panic /\ c.err = n.err /\ c.err # NilErr /\ state' = "running"
                     ELSE c.panic /\ state' = "panicked"]_vars
    /\ [][state = "panicked" => state' = "panicked" /\ result' = result]_vars
    /\ [](th = "handleConfigTag" =>
            /\ \A k \in 1..Len(calls) :
                  Parent(calls[k].path) \in ByValue(orig) => ~calls[k].addr
            /\ \A p \in ByValue(orig) : Own(At(mem, p)) = Own(At(orig, p))
            /\ (state = "returned" /\ calls # <<>> /\ calls[Len(calls)].err # NilErr) =>
                  result = calls[Len(calls)].err)

\* Handle(cfg) on a Config by value with HTTP_MAX_RETRIES=5 has panicked on
\* the first field, and cfg is as it was
C21_Witness ==
    /\ th = "handleConfigTag"
    /\ state = "panicked"
    /\ orig = ZeroConfig
    /\ mem = orig
    /\ "HTTP_MAX_RETRIES" \in DOMAIN env
    /\ env["HTTP_MAX_RETRIES"] = <<"5">>
    /\ Len(calls) = 1
    /\ calls[1].panic
    /\ ~calls[1].addr

\* the path leads through what an interface holds
BelowInterface(t, path) ==
    \E j \in 0..(Len(path) - 1) : At(t, SubSeq(path, 1, j)).kind = "interface"

\* the places of interface type
Interfaces(t) == {p \in Places(t, <<>>) : At(t, p).kind = "interface"}

\* C22: the walker descends through structs, arrays, slices, maps and
\* pointers only.  What an interface holds is never walked: no call of the
\* walker and no invocation of HandlerFn is on a place inside an interface,
\* handleValue on a value of interface kind returns nil at once, and a
\* successful walk has invoked HandlerFn once on every field of interface
\* type that it reaches.
C22_InterfaceOpaque ==
    /\ [](\A k \in 1..Len(calls) : ~BelowInterface(orig, calls[k].path))
    /\ [](\A k \in 1..Len(stack) :
            stack[k].val.valid => ~BelowInterface(orig, stack[k].val.path))
    /\ [][(At_("handleValue", "enter") /\ Kind(mem, Top.val) = "interface") =>
            /\ stack' = Pop
            /\ ret' = [set |-> TRUE, err |-> NilErr]
            /\ calls' = calls
            /\ mem' = mem]_vars
    /\ []((state = "returned" /\ result = NilErr) =>
            \A p \in FieldOccurrences(orig, <<>>) :
                At(orig, p).kind = "interface" =>
                    Cardinality({k \in 1..Len(calls) : calls[k].path = p}) = 1)

\* a walk with handleValidateTag of an Envelope whose Body holds a Person
\* with an invalid Email, whose Items hold a Name and whose Extra holds a
\* Config has returned nil after four invocations, one of them on Body
C22_Witness ==
    /\ th = "handleValidateTag"
    /\ state = "returned"
    /\ result = NilErr
    /\ orig = PtrV(EnvelopeV(InterfaceV(PersonV(1990, BadEmail, <<>>)),
                             <<InterfaceV(NameV), InterfaceV(StringV(<<"x">>))>>,
                             1 :> InterfaceV(ZeroConfig)))
    /\ [k \in 1..Len(calls) |-> calls[k].name] = <<"Label", "Body", "Items", "Extra">>
    /\ calls[2].was.kind = "interface"
    /\ Cardinality(Interfaces(orig)) = 4

=============================================================================
